---------------------------- MODULE Spec2Model ----------------------------
(***************************************************************************)
(* Model of the API testing client (browser shell src/src/App.tsx and      *)
(* mobile shell src/unnamed/part_000): the request pipeline handleSubmit,  *)
(* formatJsonBody, the status presentation helpers and the saved-URL       *)
(* store.  Texts are TLA+ strings read character by character with SubSeq. *)
(***************************************************************************)
EXTENDS Integers, Sequences, FiniteSets

(***************************************************************************)
(* JSON.parse / JSON.stringify, for the JSON subset without string escapes,*)
(* fractions and exponents (the texts of this model use none of them).     *)
(* A parsed value is a record [t, v]: t is "lit", "num", "str", "arr" or   *)
(* "obj".                                                                  *)
(***************************************************************************)
Ch(s, i) == IF i >= 1 /\ i <= Len(s) THEN SubSeq(s, i, i) ELSE ""

IsWs(c) == c \in {" ", "\n", "\t", "\r"}

IsDigit(c) == c \in {"0", "1", "2", "3", "4", "5", "6", "7", "8", "9"}

RECURSIVE SkipWs(_, _)
SkipWs(s, i) == IF IsWs(Ch(s, i)) THEN SkipWs(s, i + 1) ELSE i

RECURSIVE SkipDigits(_, _)
SkipDigits(s, i) == IF IsDigit(Ch(s, i)) THEN SkipDigits(s, i + 1) ELSE i

\* index of the closing quote of the string whose content starts at i; 0 if
\* the string is unterminated or holds a control character or an escape
RECURSIVE StringEnd(_, _)
StringEnd(s, i) ==
  LET c == Ch(s, i) IN
  IF c = "\"" THEN i
  ELSE IF c \in {"", "\n", "\t", "\r", "\\"} THEN 0
  ELSE StringEnd(s, i + 1)

ParseFail(i) == [ok |-> FALSE, val |-> [t |-> "lit", v |-> "undefined"], pos |-> i]

ParseOk(val, i) == [ok |-> TRUE, val |-> val, pos |-> i]

ParseString(s, i) ==
  LET e == StringEnd(s, i + 1) IN
  IF Ch(s, i) = "\"" /\ e > 0
    THEN ParseOk([t |-> "str", v |-> SubSeq(s, i + 1, e - 1)], e + 1)
    ELSE ParseFail(i)

ParseNumber(s, i) ==
  LET d == IF Ch(s, i) = "-" THEN i + 1 ELSE i
      e == SkipDigits(s, d)
      txt == SubSeq(s, i, e - 1)
  IN IF e = d THEN ParseFail(i)
     ELSE IF Ch(s, d) = "0" /\ e > d + 1 THEN ParseFail(i)
     ELSE IF Ch(s, e) \in {".", "e", "E"} THEN ParseFail(i)
     ELSE ParseOk([t |-> "num", v |-> IF txt = "-0" THEN "0" ELSE txt], e)

\* the n characters from i, or "" when the text ends before them
Slice(s, i, n) == IF i >= 1 /\ i + n - 1 <= Len(s) THEN SubSeq(s, i, i + n - 1) ELSE ""

ParseLiteral(s, i) ==
  IF Slice(s, i, 4) = "true" THEN ParseOk([t |-> "lit", v |-> "true"], i + 4)
  ELSE IF Slice(s, i, 4) = "null" THEN ParseOk([t |-> "lit", v |-> "null"], i + 4)
  ELSE IF Slice(s, i, 5) = "false" THEN ParseOk([t |-> "lit", v |-> "false"], i + 5)
  ELSE ParseFail(i)

\* an object keeps a key's first position and its last value
RECURSIVE PutMember(_, _, _)
PutMember(ms, k, v) ==
  IF ms = <<>> THEN << <<k, v>> >>
  ELSE IF Head(ms)[1] = k THEN << <<k, v>> >> \o Tail(ms)
  ELSE <<Head(ms)>> \o PutMember(Tail(ms), k, v)

RECURSIVE ParseValue(_, _)
RECURSIVE ParseElements(_, _, _)
RECURSIVE ParseMembers(_, _, _)

\* after "[" or ",": one element, then "," or "]"
ParseElements(s, i, acc) ==
  LET r == ParseValue(s, SkipWs(s, i))
      j == SkipWs(s, r.pos)
  IN IF ~r.ok THEN ParseFail(i)
     ELSE IF Ch(s, j) = "," THEN ParseElements(s, j + 1, Append(acc, r.val))
     ELSE IF Ch(s, j) = "]"
       THEN ParseOk([t |-> "arr", v |-> Append(acc, r.val)], j + 1)
     ELSE ParseFail(i)

\* after "{" or ",": one "key": value, then "," or "}"
ParseMembers(s, i, acc) ==
  LET k == ParseString(s, SkipWs(s, i))
      c == SkipWs(s, k.pos)
      r == ParseValue(s, SkipWs(s, c + 1))
      j == SkipWs(s, r.pos)
  IN IF ~k.ok \/ Ch(s, c) # ":" THEN ParseFail(i)
     ELSE IF ~r.ok THEN ParseFail(i)
     ELSE IF Ch(s, j) = ","
       THEN ParseMembers(s, j + 1, PutMember(acc, k.val.v, r.val))
     ELSE IF Ch(s, j) = "}"
       THEN ParseOk([t |-> "obj", v |-> PutMember(acc, k.val.v, r.val)], j + 1)
     ELSE ParseFail(i)

ParseValue(s, i) ==
  LET c == Ch(s, i) IN
  IF c = "{" THEN
    IF Ch(s, SkipWs(s, i + 1)) = "}"
      THEN ParseOk([t |-> "obj", v |-> <<>>], SkipWs(s, i + 1) + 1)
      ELSE ParseMembers(s, i + 1, <<>>)
  ELSE IF c = "[" THEN
    IF Ch(s, SkipWs(s, i + 1)) = "]"
      THEN ParseOk([t |-> "arr", v |-> <<>>], SkipWs(s, i + 1) + 1)
      ELSE ParseElements(s, i + 1, <<>>)
  ELSE IF c = "\"" THEN ParseString(s, i)
  ELSE IF c = "-" \/ IsDigit(c) THEN ParseNumber(s, i)
  ELSE ParseLiteral(s, i)

\* JSON.parse(text): a whole-text parse; ok = FALSE where JSON.parse throws
JsonParse(s) ==
  LET r == ParseValue(s, SkipWs(s, 1)) IN
  IF r.ok /\ SkipWs(s, r.pos) = Len(s) + 1 THEN r ELSE ParseFail(1)

IsValidJson(s) == JsonParse(s).ok

RECURSIVE Stringify(_, _, _)
RECURSIVE JoinElements(_, _, _, _)
RECURSIVE JoinMembers(_, _, _, _)

JoinElements(vs, ind, gap, sep) ==
  IF vs = <<>> THEN ""
  ELSE Stringify(Head(vs), ind, gap)
         \o (IF Len(vs) > 1 THEN sep ELSE "")
         \o JoinElements(Tail(vs), ind, gap, sep)

JoinMembers(ms, ind, gap, sep) ==
  IF ms = <<>> THEN ""
  ELSE "\"" \o Head(ms)[1] \o "\":" \o (IF gap = "" THEN "" ELSE " ")
         \o Stringify(Head(ms)[2], ind, gap)
         \o (IF Len(ms) > 1 THEN sep ELSE "")
         \o JoinMembers(Tail(ms), ind, gap, sep)

\* JSON.stringify's serialisation of val at indentation ind with indent unit gap
Stringify(val, ind, gap) ==
  LET inner == ind \o gap
      sep == IF gap = "" THEN "," ELSE ",\n" \o inner
      open == IF gap = "" THEN "" ELSE "\n" \o inner
      close == IF gap = "" THEN "" ELSE "\n" \o ind
  IN CASE val.t = "str" -> "\"" \o val.v \o "\""
       [] val.t = "arr" ->
            IF val.v = <<>> THEN "[]"
            ELSE "[" \o open \o JoinElements(val.v, inner, gap, sep) \o close \o "]"
       [] val.t = "obj" ->
            IF val.v = <<>> THEN "{}"
            ELSE "{" \o open \o JoinMembers(val.v, inner, gap, sep) \o close \o "}"
       [] OTHER -> val.v

\* JSON.stringify(JSON.parse(text), null, 2), for a text that parses
PrettyJson(s) == Stringify(JsonParse(s).val, "", "  ")

(***************************************************************************)
(* Bounds and input domains.                                               *)
(***************************************************************************)
\* user actions other than "send" explored in one run
MaxEdits == 3
\* submissions (presses of the send control) explored in one run
MaxSubmits == 2
\* handleSubmit invocations the model can hold suspended at once
MaxTasks == 2
\* largest status code given to the status presentation helpers
MaxStatusCode == 600

Shells == {"web", "mobile"}
Methods == {"GET", "POST", "PUT"}
Environments == {"development", "production"}
BaseUrls == {"", "http://localhost:3000"}
Paths == {"", "/api/users"}
Queries == {"", "id=1"}
Tokens == {"", "abc"}
JsonBodies == {"", "{invalid", "{\"a\":1}"}

\* what the transport can answer: a status and a body text
Statuses == {200, 404}
Bodies == {"", "Not Found", "{\"error\":\"missing\"}"}
Responses == [status : Statuses, body : Bodies]
\* what fetch can reject with: an Error with a message, or a value that is no
\* Error (for which message holds the value as a string)
Failures == {[isError |-> TRUE, name |-> "TypeError", message |-> "Network request failed"],
             [isError |-> FALSE, name |-> "", message |-> "timeout"]}
\* what res.text() can reject with once res.json() has read the body
BodyReadFailures == {[isError |-> TRUE, name |-> "TypeError", message |-> "Already read"]}

\* number | null and string | null: <<>> is null, <<v>> is the value v
Null == <<>>
Some(v) == <<v>>

VARIABLES
  shell,        \* which of the two shells runs
  method, url, baseUrl, environment, useAuth, token, jsonBody, urlParams,
  response, loading, error, statusCode, savedUrls,   \* the useState slots
  storage,      \* the item stored under 'apiTesterUrls': Null or Some(text)
  storageOps,   \* AsyncStorage calls of the mobile shell not yet settled
  tasks,        \* handleSubmit invocations suspended at an await
  nEdits, nSubmits,   \* user actions taken so far
  code, color, statusText,   \* the status helpers' last input and outputs
  runs          \* handleSubmit of each shell run on one input: Null or Some(run)

config == <<method, url, urlParams, useAuth, token, jsonBody>>
store == <<baseUrl, environment, savedUrls, storage, storageOps>>
result == <<response, loading, error, statusCode>>
probe == <<code, color, statusText, runs>>
vars == <<shell, config, store, result, tasks, nEdits, nSubmits, probe>>

(***************************************************************************)
(* The saved-URL store.                                                    *)
(***************************************************************************)
StorageKey == "apiTesterUrls"

EmptyUrls == [development |-> "", production |-> ""]

\* JSON.stringify(newSavedUrls)
SerializeUrls(m) ==
  Stringify([t |-> "obj",
             v |-> << <<"development", [t |-> "str", v |-> m.development]>>,
                      <<"production", [t |-> "str", v |-> m.production]>> >>],
            "", "")

RECURSIVE Member(_, _)
\* parsed[key] of a parsed object whose values are strings; "" stands for undefined
Member(ms, k) ==
  IF ms = <<>> THEN ""
  ELSE IF Head(ms)[1] = k THEN Head(ms)[2].v
  ELSE Member(Tail(ms), k)

\* JSON.parse(savedData), read as a saved-URL map
ParseUrls(text) ==
  LET ms == JsonParse(text).val.v IN
  [development |-> Member(ms, "development"), production |-> Member(ms, "production")]

\* an effect that always shows the development URL
EnvironmentEffectDevelopment(urls, env) == urls["development"]

\* the effect on [environment, savedUrls]: setBaseUrl(savedUrls[environment] || '')
EnvironmentEffect(urls, env) == urls[env]

\* the mount effect's update of savedUrls, given what getItem returned
LoadedUrls(savedData, urls) ==
  IF savedData # Null /\ savedData[1] # "" THEN ParseUrls(savedData[1]) ELSE urls

\* a save that rebuilds the map from the active environment alone
NewSavedUrlsDroppingOthers(urls, env, base) == [EmptyUrls EXCEPT ![env] = base]

\* saveBaseUrl's newSavedUrls
NewSavedUrls(urls, env, base) == [urls EXCEPT ![env] = base]

(***************************************************************************)
(* handleSubmit, cut at its awaits.  r is the record of the four result    *)
(* slots (loading, error, response, statusCode) as the handler has set     *)
(* them so far.                                                            *)
(***************************************************************************)
InvalidBodyMessage == "Invalid JSON in request body"
RequestFailedPrefix == "Request failed: "
NoBodyPlaceholder == "No response body"

Slots == [loading |-> loading, error |-> error, response |-> response,
          statusCode |-> statusCode]

SetSlots(r) ==
  /\ loading' = r.loading
  /\ error' = r.error
  /\ response' = r.response
  /\ statusCode' = r.statusCode

\* a send control that stays enabled while loading
SubmitEnabledWhileLoading == shell = "web" => url # ""

\* the send control is disabled while loading; the browser form also refuses
\* to submit while the required endpoint input is empty
SubmitEnabled == ~loading /\ (shell = "web" => url # "")

\* a start of submission that forgets setResponse('')
StartedKeepingResponse(r) ==
  [r EXCEPT !.loading = TRUE, !.error = "", !.statusCode = Null]

\* a start of submission that forgets setStatusCode(null)
StartedKeepingStatus(r) ==
  [r EXCEPT !.loading = TRUE, !.error = "", !.response = ""]

\* setLoading(true); setError(''); setResponse(''); setStatusCode(null)
Started(r) ==
  [r EXCEPT !.loading = TRUE, !.error = "", !.response = "", !.statusCode = Null]

\* a URL that always carries the "?" separator
FullUrlAlwaysQuery(b, p, q) == b \o p \o "?" \o q

\* `${baseUrl}${url}${urlParams ? `?${urlParams}` : ''}`
FullUrl(b, p, q) == b \o p \o (IF q # "" THEN "?" \o q ELSE "")

\* headers that carry Authorization whenever useAuth is set
RequestHeadersAnyToken(auth, tok) ==
  IF auth
    THEN [n \in {"Content-Type", "Authorization"} |->
            IF n = "Content-Type" THEN "application/json" ELSE "Bearer " \o tok]
    ELSE [n \in {"Content-Type"} |-> "application/json"]

\* the headers object: name -> value
RequestHeaders(auth, tok) ==
  IF auth /\ tok # ""
    THEN [n \in {"Content-Type", "Authorization"} |->
            IF n = "Content-Type" THEN "application/json" ELSE "Bearer " \o tok]
    ELSE [n \in {"Content-Type"} |-> "application/json"]

\* a validation that covers POST alone
BodyRejectedPostOnly(m, body) == m = "POST" /\ body # "" /\ ~IsValidJson(body)

\* the inner try's JSON.parse(jsonBody) throws
BodyRejected(m, body) == m # "GET" /\ body # "" /\ ~IsValidJson(body)

\* a body that is attached re-serialised
RequestBodyReserialized(m, body) ==
  IF m # "GET" /\ body # "" THEN Some(PrettyJson(body)) ELSE Null

\* options.body: Null when no body is attached
RequestBody(m, body) == IF m # "GET" /\ body # "" THEN Some(body) ELSE Null

\* the arguments of fetch(fullUrl, options)
Request ==
  [url |-> FullUrl(baseUrl, url, urlParams), method |-> method,
   headers |-> RequestHeaders(useAuth, token), body |-> RequestBody(method, jsonBody)]

\* the inner catch: setError(...); setLoading(false); return (then finally)
Aborted(r) == [r EXCEPT !.error = InvalidBodyMessage, !.loading = FALSE]

\* String(err): an Error prints as "name: message", a thrown string as itself
StringOf(err) == IF err.isError THEN err.name \o ": " \o err.message ELSE err.message

\* a message that is String(err) for every failure
ErrorTextAlwaysString(err) == StringOf(err)

\* err instanceof Error ? err.message : String(err)
ErrorText(err) == IF err.isError THEN err.message ELSE StringOf(err)

\* an outer catch that is not followed by setLoading(false)
FailedStayingBusy(r, err) == [r EXCEPT !.error = RequestFailedPrefix \o ErrorText(err)]

\* the outer catch, then finally
Failed(r, err) ==
  [r EXCEPT !.error = RequestFailedPrefix \o ErrorText(err), !.loading = FALSE]

\* setStatusCode(res.status)
Received(r, res) == [r EXCEPT !.statusCode = Some(res.status)]

\* setResponse(JSON.stringify(data, null, 2)), then finally
Decoded(r, res) == [r EXCEPT !.response = PrettyJson(res.body), !.loading = FALSE]

\* setResponse(text || 'No response body'), then finally
ReadAsText(r, res) ==
  [r EXCEPT !.response = IF res.body # "" THEN res.body ELSE NoBodyPlaceholder,
            !.loading = FALSE]

NoResponse == [status |-> 0, body |-> ""]

RemoveAt(seq, i) == SubSeq(seq, 1, i - 1) \o SubSeq(seq, i + 1, Len(seq))

\* handleSubmit from its call to the first await (or to its return)
Submit ==
  /\ SubmitEnabled
  /\ nSubmits < MaxSubmits
  /\ Len(tasks) < MaxTasks
  /\ nSubmits' = nSubmits + 1
  /\ IF BodyRejected(method, jsonBody)
       THEN /\ SetSlots(Aborted(Started(Slots)))
            /\ tasks' = tasks
       ELSE /\ SetSlots(Started(Slots))
            /\ tasks' = Append(tasks, [pc |-> "fetch", req |-> Request, res |-> NoResponse])
  /\ UNCHANGED <<shell, config, store, nEdits, probe>>

\* fetch rejects: the outer catch and finally
FetchReject(i, err) ==
  /\ tasks[i].pc = "fetch"
  /\ SetSlots(Failed(Slots, err))
  /\ tasks' = RemoveAt(tasks, i)
  /\ UNCHANGED <<shell, config, store, nEdits, nSubmits, probe>>

\* fetch resolves: setStatusCode(res.status) and the call of res.json()
FetchResolve(i, res) ==
  /\ tasks[i].pc = "fetch"
  /\ SetSlots(Received(Slots, res))
  /\ tasks' = [tasks EXCEPT ![i] = [@ EXCEPT !.pc = "json", !.res = res]]
  /\ UNCHANGED <<shell, config, store, nEdits, nSubmits, probe>>

\* res.json() settles: it resolves when the body is JSON, and otherwise
\* rejects into the inner catch, which calls res.text()
JsonSettle(i) ==
  /\ tasks[i].pc = "json"
  /\ IF IsValidJson(tasks[i].res.body)
       THEN /\ SetSlots(Decoded(Slots, tasks[i].res))
            /\ tasks' = RemoveAt(tasks, i)
       ELSE /\ tasks' = [tasks EXCEPT ![i] = [@ EXCEPT !.pc = "text"]]
            /\ UNCHANGED result
  /\ UNCHANGED <<shell, config, store, nEdits, nSubmits, probe>>

\* res.text() resolves with the body text
TextResolve(i) ==
  /\ tasks[i].pc = "text"
  /\ SetSlots(ReadAsText(Slots, tasks[i].res))
  /\ tasks' = RemoveAt(tasks, i)
  /\ UNCHANGED <<shell, config, store, nEdits, nSubmits, probe>>

\* res.text() rejects (the body was already read by res.json(), or the
\* stream failed): the rejection leaves the inner catch for the outer one
TextReject(i, err) ==
  /\ tasks[i].pc = "text"
  /\ SetSlots(Failed(Slots, err))
  /\ tasks' = RemoveAt(tasks, i)
  /\ UNCHANGED <<shell, config, store, nEdits, nSubmits, probe>>


(***************************************************************************)
(* The form's inputs.  Each changes one slot; the token input is rendered  *)
(* only while useAuth is set, the body editor and its Format control only  *)
(* while the method is not GET.                                            *)
(***************************************************************************)
Edited == nEdits < MaxEdits /\ nEdits' = nEdits + 1

\* a method selector whose change reaches the request already in flight
SetMethodLive(m) ==
  /\ Edited /\ m # method
  /\ method' = m
  /\ tasks' = [i \in DOMAIN tasks |-> [tasks[i] EXCEPT !.req.method = m]]
  /\ UNCHANGED <<shell, url, urlParams, useAuth, token, jsonBody, store, result,
                 nSubmits, probe>>

SetMethod(m) ==
  /\ Edited /\ m # method
  /\ method' = m
  /\ UNCHANGED <<shell, url, urlParams, useAuth, token, jsonBody, store, result,
                 tasks, nSubmits, probe>>

SetUrl(v) ==
  /\ Edited /\ v # url
  /\ url' = v
  /\ UNCHANGED <<shell, method, urlParams, useAuth, token, jsonBody, store, result,
                 tasks, nSubmits, probe>>

SetUrlParams(v) ==
  /\ Edited /\ v # urlParams
  /\ urlParams' = v
  /\ UNCHANGED <<shell, method, url, useAuth, token, jsonBody, store, result,
                 tasks, nSubmits, probe>>

SetUseAuth ==
  /\ Edited
  /\ useAuth' = ~useAuth
  /\ UNCHANGED <<shell, method, url, urlParams, token, jsonBody, store, result,
                 tasks, nSubmits, probe>>

SetToken(v) ==
  /\ Edited /\ useAuth /\ v # token
  /\ token' = v
  /\ UNCHANGED <<shell, method, url, urlParams, useAuth, jsonBody, store, result,
                 tasks, nSubmits, probe>>

SetJsonBody(v) ==
  /\ Edited /\ method # "GET" /\ v # jsonBody
  /\ jsonBody' = v
  /\ UNCHANGED <<shell, method, url, urlParams, useAuth, token, store, result,
                 tasks, nSubmits, probe>>

\* formatJsonBody: JSON.stringify(JSON.parse(jsonBody), null, 2), or the error
FormatJsonBody ==
  /\ Edited /\ method # "GET"
  /\ IF IsValidJson(jsonBody)
       THEN jsonBody' = PrettyJson(jsonBody) /\ error' = error
       ELSE error' = InvalidBodyMessage /\ jsonBody' = jsonBody
  /\ UNCHANGED <<shell, method, url, urlParams, useAuth, token, store, response,
                 loading, statusCode, tasks, nSubmits, probe>>

SetBaseUrl(v) ==
  /\ Edited /\ v # baseUrl
  /\ baseUrl' = v
  /\ UNCHANGED <<shell, config, environment, savedUrls, storage, storageOps, result,
                 tasks, nSubmits, probe>>

\* the environment selector, which only the mobile shell renders, and the
\* effect on [environment, savedUrls] that follows it
SetEnvironment(e) ==
  /\ Edited /\ shell = "mobile" /\ e # environment
  /\ environment' = e
  /\ baseUrl' = EnvironmentEffect(savedUrls, e)
  /\ UNCHANGED <<shell, config, savedUrls, storage, storageOps, result, tasks,
                 nSubmits, probe>>

\* saveBaseUrl: localStorage.setItem writes at once, AsyncStorage.setItem is
\* issued and settles later; then the effect on [environment, savedUrls]
SaveBaseUrl ==
  LET new == NewSavedUrls(savedUrls, environment, baseUrl) IN
  /\ Edited
  /\ savedUrls' = new
  /\ baseUrl' = EnvironmentEffect(new, environment)
  /\ IF shell = "web"
       THEN storage' = Some(SerializeUrls(new)) /\ storageOps' = storageOps
       ELSE storage' = storage
            /\ storageOps' = Append(storageOps, [op |-> "setItem", value |-> SerializeUrls(new)])
  /\ UNCHANGED <<shell, config, environment, result, tasks, nSubmits, probe>>

\* AsyncStorage.getItem of loadSavedUrls resolves: the mount effect's updates
\* and the effect on [environment, savedUrls] that follows them
LoadSettle ==
  /\ storageOps # <<>> /\ Head(storageOps).op = "getItem"
  /\ storageOps' = Tail(storageOps)
  /\ savedUrls' = LoadedUrls(storage, savedUrls)
  /\ baseUrl' = IF storage # Null /\ storage[1] # ""
                  THEN EnvironmentEffect(LoadedUrls(storage, savedUrls), environment)
                  ELSE baseUrl
  /\ UNCHANGED <<shell, config, environment, storage, result, tasks, nEdits,
                 nSubmits, probe>>

\* AsyncStorage.setItem of saveBaseUrl resolves
WriteSettle ==
  /\ storageOps # <<>> /\ Head(storageOps).op = "setItem"
  /\ storageOps' = Tail(storageOps)
  /\ storage' = Some(Head(storageOps).value)
  /\ UNCHANGED <<shell, config, baseUrl, environment, savedUrls, result, tasks,
                 nEdits, nSubmits, probe>>

\* AsyncStorage.setItem rejects: the catch logs, nothing is written
WriteFail ==
  /\ storageOps # <<>> /\ Head(storageOps).op = "setItem"
  /\ storageOps' = Tail(storageOps)
  /\ UNCHANGED <<shell, config, baseUrl, environment, savedUrls, storage, result,
                 tasks, nEdits, nSubmits, probe>>

(***************************************************************************)
(* Status presentation.                                                    *)
(***************************************************************************)
\* a classification whose success range starts after 200
getStatusCodeColorOffByOne(sh, c) ==
  LET gray == IF sh = "web" THEN "text-gray-600" ELSE "#6B7280"
      green == IF sh = "web" THEN "text-green-600" ELSE "#10B981"
      blue == IF sh = "web" THEN "text-blue-600" ELSE "#3B82F6"
      yellow == IF sh = "web" THEN "text-yellow-600" ELSE "#F59E0B"
      red == IF sh = "web" THEN "text-red-600" ELSE "#EF4444"
  IN IF c = Null \/ c[1] = 0 THEN gray
     ELSE IF c[1] > 200 /\ c[1] < 300 THEN green
     ELSE IF c[1] >= 300 /\ c[1] < 400 THEN blue
     ELSE IF c[1] >= 400 /\ c[1] < 500 THEN yellow
     ELSE red

\* getStatusCodeColor of each shell; c is Null or Some(number)
getStatusCodeColor(sh, c) ==
  LET gray == IF sh = "web" THEN "text-gray-600" ELSE "#6B7280"
      green == IF sh = "web" THEN "text-green-600" ELSE "#10B981"
      blue == IF sh = "web" THEN "text-blue-600" ELSE "#3B82F6"
      yellow == IF sh = "web" THEN "text-yellow-600" ELSE "#F59E0B"
      red == IF sh = "web" THEN "text-red-600" ELSE "#EF4444"
  IN IF c = Null \/ c[1] = 0 THEN gray
     ELSE IF c[1] >= 200 /\ c[1] < 300 THEN green
     ELSE IF c[1] >= 300 /\ c[1] < 400 THEN blue
     ELSE IF c[1] >= 400 /\ c[1] < 500 THEN yellow
     ELSE red

\* the statusTexts record of getStatusText (the same in both shells)
statusTexts ==
  [c \in {200, 201, 204, 400, 401, 403, 404, 500, 502, 503} |->
     CASE c = 200 -> "OK"
       [] c = 201 -> "Created"
       [] c = 204 -> "No Content"
       [] c = 400 -> "Bad Request"
       [] c = 401 -> "Unauthorized"
       [] c = 403 -> "Forbidden"
       [] c = 404 -> "Not Found"
       [] c = 500 -> "Internal Server Error"
       [] c = 502 -> "Bad Gateway"
       [] c = 503 -> "Service Unavailable"]

\* a lookup with a generic label for the codes outside the table
getStatusTextWithFallback(c) ==
  IF c = Null \/ c[1] = 0 THEN ""
  ELSE IF c[1] \in DOMAIN statusTexts THEN statusTexts[c[1]]
  ELSE "Unknown"

\* getStatusText; c is Null or Some(number): !code is true of null and of 0,
\* and statusTexts[code] || '' is '' for a code that is no key of the record
getStatusText(c) ==
  IF c = Null \/ c[1] = 0 THEN ""
  ELSE IF c[1] \in DOMAIN statusTexts /\ statusTexts[c[1]] # "" THEN statusTexts[c[1]]
  ELSE ""

\* a render of the status badge for the code c, by both shells
Classify(c) ==
  /\ code' = c
  /\ color' = [sh \in Shells |-> getStatusCodeColor(sh, c)]
  /\ statusText' = getStatusText(c)
  /\ runs' = runs
  /\ UNCHANGED <<shell, config, store, result, tasks, nEdits, nSubmits>>

(***************************************************************************)
(* handleSubmit of each shell as a function: from the result on screen, *)
(* the configuration and what the transport does, to the result states it  *)
(* sets one after the other and the fetch call it makes.                   *)
(***************************************************************************)
\* the configurations the form can hold when the send control is used
Configs ==
  [method : Methods, baseUrl : BaseUrls, url : Paths, urlParams : Queries,
   useAuth : BOOLEAN, token : Tokens, jsonBody : JsonBodies]

\* a result left on screen by an earlier submission, or none
PriorResults ==
  { [response |-> "", loading |-> FALSE, error |-> "", statusCode |-> Null],
    [response |-> "Not Found", loading |-> FALSE, error |-> "Invalid JSON in request body",
     statusCode |-> Some(404)] }

\* what the transport does: fetch rejects with err, or resolves with res and
\* res.text(), if it comes to be called, resolves (Null) or rejects (Some(err))
Outcomes ==
  {[kind |-> "reject", err |-> e, res |-> NoResponse, textErr |-> Null] : e \in Failures}
  \cup
  {[kind |-> "resolve", err |-> e, res |-> r, textErr |-> t] :
     e \in {CHOOSE f \in Failures : TRUE}, r \in Responses,
     t \in {Null} \cup {Some(f) : f \in BodyReadFailures}}

\* handleSubmit of the browser shell
HandleSubmitWeb(prior, cfg, out) ==
  LET started == Started(prior)
      req == [url |-> FullUrl(cfg.baseUrl, cfg.url, cfg.urlParams),
              method |-> cfg.method,
              headers |-> RequestHeaders(cfg.useAuth, cfg.token),
              body |-> RequestBody(cfg.method, cfg.jsonBody)]
      received == Received(started, out.res)
  IN IF BodyRejected(cfg.method, cfg.jsonBody)
       THEN [states |-> <<Aborted(started)>>, call |-> Null]
     ELSE IF out.kind = "reject"
       THEN [states |-> <<started, Failed(started, out.err)>>, call |-> Some(req)]
     ELSE IF IsValidJson(out.res.body)
       THEN [states |-> <<started, received, Decoded(received, out.res)>>,
             call |-> Some(req)]
     ELSE IF out.textErr = Null
       THEN [states |-> <<started, received, ReadAsText(received, out.res)>>,
             call |-> Some(req)]
     ELSE [states |-> <<started, received, Failed(received, out.textErr[1])>>,
           call |-> Some(req)]

\* a handler that attaches the body of a GET request as well
HandleSubmitMobileBodyOnGet(prior, cfg, out) ==
  LET run == HandleSubmitWeb(prior, cfg, out)
  IN IF run.call # Null /\ cfg.jsonBody # "" /\ IsValidJson(cfg.jsonBody)
       THEN [run EXCEPT !.call = Some([run.call[1] EXCEPT !.body = Some(cfg.jsonBody)])]
       ELSE run

\* handleSubmit of the mobile shell
HandleSubmitMobile(prior, cfg, out) ==
  LET started == [prior EXCEPT !.loading = TRUE, !.error = "", !.response = "",
                               !.statusCode = Null]
      fullUrl == cfg.baseUrl \o cfg.url \o
                 (IF cfg.urlParams # "" THEN "?" \o cfg.urlParams ELSE "")
      withAuth == cfg.useAuth /\ cfg.token # ""
      headers == [n \in {"Content-Type"} \cup (IF withAuth THEN {"Authorization"} ELSE {}) |->
                    IF n = "Content-Type" THEN "application/json"
                    ELSE "Bearer " \o cfg.token]
      withBody == cfg.method # "GET" /\ cfg.jsonBody # ""
      options == [url |-> fullUrl, method |-> cfg.method, headers |-> headers,
                  body |-> IF withBody THEN Some(cfg.jsonBody) ELSE Null]
      caught(r, err) ==
        [r EXCEPT !.error = "Request failed: " \o
                              (IF err.isError THEN err.message ELSE StringOf(err)),
                  !.loading = FALSE]
      received == [started EXCEPT !.statusCode = Some(out.res.status)]
  IN IF withBody /\ ~IsValidJson(cfg.jsonBody)
       THEN [states |-> <<[started EXCEPT !.error = "Invalid JSON in request body",
                                          !.loading = FALSE]>>,
             call |-> Null]
     ELSE IF out.kind = "reject"
       THEN [states |-> <<started, caught(started, out.err)>>, call |-> Some(options)]
     ELSE IF IsValidJson(out.res.body)
       THEN [states |-> <<started, received,
                          [received EXCEPT !.response = PrettyJson(out.res.body),
                                           !.loading = FALSE]>>,
             call |-> Some(options)]
     ELSE IF out.textErr = Null
       THEN [states |-> <<started, received,
                          [received EXCEPT
                             !.response = IF out.res.body # "" THEN out.res.body
                                          ELSE "No response body",
                             !.loading = FALSE]>>,
             call |-> Some(options)]
     ELSE [states |-> <<started, received, caught(received, out.textErr[1])>>,
           call |-> Some(options)]

\* both handlers called on one input the two shells can both be in: the
\* browser form submits only with its required endpoint input filled
RunBoth(prior, cfg, out) ==
  /\ runs = Null
  /\ cfg.url # ""
  /\ runs' = Some([prior |-> prior, cfg |-> cfg, out |-> out,
                   web |-> HandleSubmitWeb(prior, cfg, out),
                   mobile |-> HandleSubmitMobile(prior, cfg, out)])
  /\ code' = code /\ color' = color /\ statusText' = statusText
  /\ UNCHANGED <<shell, config, store, result, tasks, nEdits, nSubmits>>

(***************************************************************************)
(* Specifications.                                                         *)
(***************************************************************************)
\* the maps a previous session can have left in storage
StoredItems ==
  {Null, Some(SerializeUrls([development |-> "http://localhost:3000", production |-> ""]))}

\* the state once the component is mounted: the browser shell has read
\* localStorage in its mount effect, the mobile shell has issued getItem
Init ==
  /\ shell \in Shells
  /\ storage \in StoredItems
  /\ method = "GET" /\ url = "" /\ urlParams = ""
  /\ useAuth = FALSE /\ token = "" /\ jsonBody = ""
  /\ environment = "development"
  /\ savedUrls = IF shell = "web" THEN LoadedUrls(storage, EmptyUrls) ELSE EmptyUrls
  /\ baseUrl = EnvironmentEffect(savedUrls, environment)
  /\ storageOps = IF shell = "web" THEN <<>> ELSE <<[op |-> "getItem", value |-> ""]>>
  /\ response = "" /\ loading = FALSE /\ error = "" /\ statusCode = Null
  /\ tasks = <<>>
  /\ nEdits = 0 /\ nSubmits = 0
  /\ code = Null
  /\ color = [sh \in Shells |-> getStatusCodeColor(sh, Null)]
  /\ statusText = getStatusText(Null)
  /\ runs = Null

Next ==
  \/ Submit
  \/ \E i \in DOMAIN tasks, err \in Failures : FetchReject(i, err)
  \/ \E i \in DOMAIN tasks, res \in Responses : FetchResolve(i, res)
  \/ \E i \in DOMAIN tasks : JsonSettle(i)
  \/ \E i \in DOMAIN tasks : TextResolve(i)
  \/ \E i \in DOMAIN tasks, err \in BodyReadFailures : TextReject(i, err)
  \/ \E m \in Methods : SetMethod(m)
  \/ \E v \in Paths : SetUrl(v)
  \/ \E v \in Queries : SetUrlParams(v)
  \/ SetUseAuth
  \/ \E v \in Tokens : SetToken(v)
  \/ \E v \in JsonBodies : SetJsonBody(v)
  \/ FormatJsonBody
  \/ \E v \in BaseUrls : SetBaseUrl(v)
  \/ \E e \in Environments : SetEnvironment(e)
  \/ SaveBaseUrl
  \/ LoadSettle
  \/ WriteSettle
  \/ WriteFail

Spec == Init /\ [][Next]_vars

\* the status helpers alone, applied to every code of the range
StatusInputs == {Null} \cup {Some(c) : c \in 0..MaxStatusCode}

NextStatus == \E c \in StatusInputs : Classify(c)

SpecStatus == Init /\ [][NextStatus]_vars

\* the two handlers alone, on every configuration, prior result and outcome
NextShells ==
  \E prior \in PriorResults, cfg \in Configs, out \in Outcomes : RunBoth(prior, cfg, out)

SpecShells == Init /\ [][NextShells]_vars

(***************************************************************************)
(* Properties.                                                             *)
(***************************************************************************)
StartsWith(s, p) == Len(s) >= Len(p) /\ SubSeq(s, 1, Len(p)) = p

\* a step that is a press of the send control
SubmitStep == nSubmits' = nSubmits + 1

\* a press of the send control that reaches fetch: the new suspended call
SentStep == SubmitStep /\ Len(tasks') = Len(tasks) + 1
Sent == tasks'[Len(tasks')].req

\* C1: a submission with method POST or PUT and a non-empty jsonBody that is
\* not valid JSON ends with the error 'Invalid JSON in request body', without
\* a transport call, with statusCode absent, response empty and loading false.
C1_InvalidBodyAborts ==
  [][(SubmitStep /\ method \in {"POST", "PUT"} /\ jsonBody # "" /\ ~IsValidJson(jsonBody))
       => /\ error' = InvalidBodyMessage
          /\ tasks' = tasks
          /\ tasks' = <<>>
          /\ statusCode' = Null
          /\ response' = ""
          /\ loading' = FALSE]_vars

\* a PUT of "{invalid" was submitted after two edits (method, body), so that
\* the error shown is the submission's
C1_Witness ==
  /\ shell = "mobile" /\ nEdits = 2 /\ nSubmits = 1
  /\ method = "PUT" /\ jsonBody = "{invalid"
  /\ error = InvalidBodyMessage /\ ~loading /\ tasks = <<>>
  /\ response = "" /\ statusCode = Null

\* C2: at most one transport call is issued and not yet settled, at most one
\* handleSubmit is suspended, and loading is true while one is.
C2_OneInFlight ==
  /\ Cardinality({i \in DOMAIN tasks : tasks[i].pc = "fetch"}) <= 1
  /\ Len(tasks) <= 1
  /\ (tasks # <<>> => loading)

\* a transport call is pending while the run could still submit again
C2_Witness ==
  /\ Len(tasks) = 1 /\ tasks[1].pc = "fetch" /\ loading
  /\ nSubmits < MaxSubmits /\ (shell = "web" => url # "")

\* C3, as claimed: at most one of the response text and the error message is
\* non-empty in every reachable state.
C3_AtMostOneOfResponseAndError == ~(response # "" /\ error # "")

\* C3, amended: the response text and the error message are both non-empty
\* only when the error is formatJsonBody's 'Invalid JSON in request body'; a
\* 'Request failed: ...' message is never shown together with a response text.
C3_OnlyFormatErrorBesideResponse ==
  (response # "" /\ error # "") => error = InvalidBodyMessage

\* a response text is shown and formatJsonBody has set its error
C3_Witness == response # "" /\ error = InvalidBodyMessage /\ ~loading

\* C4, as claimed: whenever the error message begins with 'Request failed:',
\* statusCode is absent.
C4_RequestFailedHasNoStatus ==
  StartsWith(error, RequestFailedPrefix) => statusCode = Null

\* C5: when fetch rejects, the submission ends with statusCode absent, response
\* empty, loading false and the error 'Request failed: ' followed by the
\* failure's message text.
C5_TransportFailure ==
  [][(tasks # <<>> /\ tasks[1].pc = "fetch" /\ tasks' = <<>>)
       => /\ statusCode' = Null
          /\ response' = ""
          /\ loading' = FALSE
          /\ \E err \in Failures : error' = "Request failed: " \o err.message]_vars

\* the transport threw an Error and the submission has ended
C5_Witness ==
  /\ error = "Request failed: Network request failed"
  /\ statusCode = Null /\ response = "" /\ ~loading /\ tasks = <<>> /\ nSubmits > 0

\* the body text the Response Interpreter is to show for a response body
ExpectedBodyText(body) ==
  IF IsValidJson(body) THEN PrettyJson(body)
  ELSE IF body # "" THEN body ELSE "No response body"

\* C6, as claimed: every submission that received a response ends with
\* statusCode the response's status, response the pretty-printed JSON or the
\* raw text or 'No response body', and no error message set.
C6_ResponseInterpreted ==
  [][(tasks # <<>> /\ tasks[1].pc \in {"json", "text"} /\ tasks' = <<>>)
       => /\ statusCode' = Some(tasks[1].res.status)
          /\ response' = ExpectedBodyText(tasks[1].res.body)
          /\ error' = error
          /\ ~StartsWith(error', RequestFailedPrefix)]_vars

\* the severity bucket a display colour of either shell stands for
BucketOf(c) ==
  CASE c \in {"text-gray-600", "#6B7280"} -> "neutral"
    [] c \in {"text-green-600", "#10B981"} -> "success"
    [] c \in {"text-blue-600", "#3B82F6"} -> "redirect"
    [] c \in {"text-yellow-600", "#F59E0B"} -> "client-error"
    [] c \in {"text-red-600", "#EF4444"} -> "server-error"

\* C7, as claimed: an absent status code and every code below 200 are put in
\* the neutral bucket by both shells.
C7_Below200Neutral ==
  (code = Null \/ code[1] < 200) => \A sh \in Shells : BucketOf(color[sh]) = "neutral"

\* C8: every code of 200 and above is put by both shells in the bucket of its
\* range: 200-299 success, 300-399 redirect, 400-499 client-error, 500 and
\* above server-error.
C8_Classification ==
  (code # Null /\ code[1] >= 200) =>
    \A sh \in Shells :
      BucketOf(color[sh]) = (IF code[1] <= 299 THEN "success"
                             ELSE IF code[1] <= 399 THEN "redirect"
                             ELSE IF code[1] <= 499 THEN "client-error"
                             ELSE "server-error")

\* 404 was classified: yellow in both shells
C8_Witness ==
  code = Some(404) /\ color["web"] = "text-yellow-600" /\ color["mobile"] = "#F59E0B"

\* C9: the request passed to fetch has no body when the method is GET or
\* jsonBody is empty, and otherwise has exactly the text of jsonBody as body.
C9_BodyAttached ==
  [][SentStep => Sent.body = (IF method = "GET" \/ jsonBody = "" THEN Null
                              ELSE Some(jsonBody))]_vars

\* a POST was sent with the body text as typed
C9_Witness ==
  \E i \in DOMAIN tasks :
    tasks[i].req.method = "POST" /\ tasks[i].req.body = Some("{\"a\":1}")

\* C10: the request passed to fetch always has the JSON content type, and has
\* an Authorization header exactly when useAuth is set and token is non-empty,
\* with the value 'Bearer ' + token; useAuth with an empty token raises no
\* error.
C10_Headers ==
  [][SubmitStep =>
       /\ SentStep \/ error' = InvalidBodyMessage
       /\ SentStep =>
            /\ "Content-Type" \in DOMAIN Sent.headers
            /\ Sent.headers["Content-Type"] = "application/json"
            /\ ("Authorization" \in DOMAIN Sent.headers) <=> (useAuth /\ token # "")
            /\ (useAuth /\ token # "") => Sent.headers["Authorization"] = "Bearer " \o token
            /\ DOMAIN Sent.headers \subseteq {"Content-Type", "Authorization"}
            /\ error' = ""]_vars

\* a request was sent with a bearer token
C10_Witness ==
  \E i \in DOMAIN tasks :
    /\ "Authorization" \in DOMAIN tasks[i].req.headers
    /\ tasks[i].req.headers["Authorization"] = "Bearer abc"

\* a state in which nothing but the form's own validation can refuse a send
CanPressSend == ~loading /\ nSubmits < MaxSubmits /\ Len(tasks) < MaxTasks

\* C11, as claimed: the URL passed to fetch is baseUrl + path, followed by
\* "?" + query when the query is non-empty, and no send is refused for an
\* empty baseUrl or an empty path.
C11_UrlBuiltNoValidation ==
  /\ [][SentStep => Sent.url = (IF urlParams = "" THEN baseUrl \o url
                                ELSE baseUrl \o url \o "?" \o urlParams)]_vars
  /\ [](CanPressSend => ENABLED Submit)

\* C11, amended: the URL passed to fetch is baseUrl + path, followed by
\* "?" + query when the query is non-empty, with no other change; the mobile
\* shell sends whatever the base URL and the path are, and the browser shell,
\* whose endpoint input is required, never sends with an empty path.
C11_UrlBuilt ==
  [][/\ SentStep => Sent.url = (IF urlParams = "" THEN baseUrl \o url
                                ELSE baseUrl \o url \o "?" \o urlParams)
     /\ (SubmitStep /\ shell = "web") => url # ""]_vars

\* a request went out with an empty base URL and an empty path
C11_Witness ==
  \E i \in DOMAIN tasks : tasks[i].req.url = "?id=1" /\ tasks[i].pc = "fetch"

\* a step in which saveBaseUrl writes: localStorage is written at once, and
\* an AsyncStorage.setItem is issued
WebSaveStep == shell = "web" /\ storage' # storage
MobileSaveStep == Len(storageOps') > Len(storageOps)
\* a step in which an AsyncStorage.setItem succeeds
WriteDoneStep ==
  /\ storageOps # <<>> /\ Head(storageOps).op = "setItem"
  /\ storageOps' = Tail(storageOps) /\ storage' # storage

\* what a fresh mount loads from the stored item
FreshLoad(item) == LoadedUrls(item, EmptyUrls)

\* the map saveBaseUrl is to produce: the active entry is the edited baseUrl
SavedAsEdited ==
  /\ savedUrls'[environment] = baseUrl
  /\ \A e \in Environments \ {environment} : savedUrls'[e] = savedUrls[e]

\* C12: the item saveBaseUrl writes loads, on a fresh mount, as the in-memory
\* map at save time, whose active entry is the edited baseUrl and whose other
\* entry is unchanged; a write that completes stores exactly that item.
C12_SaveThenReload ==
  [][/\ WebSaveStep => (SavedAsEdited /\ FreshLoad(storage') = savedUrls')
     /\ MobileSaveStep =>
          /\ SavedAsEdited
          /\ storageOps'[Len(storageOps')].op = "setItem"
          /\ FreshLoad(Some(storageOps'[Len(storageOps')].value)) = savedUrls'
     /\ WriteDoneStep => storage' = Some(Head(storageOps).value)]_vars

\* the production URL was edited and saved beside a loaded development URL,
\* and the write has completed
C12_Witness ==
  /\ shell = "mobile" /\ environment = "production" /\ storageOps = <<>>
  /\ savedUrls = [development |-> "http://localhost:3000",
                  production |-> "http://localhost:3000"]
  /\ storage # Null /\ FreshLoad(storage) = savedUrls

\* C13, as claimed: once no storage operation is pending, the stored item
\* loads as the in-memory savedUrls map.
C13_StoredEqualsMemory == storageOps = <<>> => FreshLoad(storage) = savedUrls

\* C14: a switch of the active environment shows that environment's saved URL
\* (the empty string when none is saved) and changes neither the saved-URL
\* map nor the stored item, and issues no write: the unsaved edit is dropped.
C14_SwitchEnvironment ==
  [][environment' # environment =>
       /\ baseUrl' = savedUrls[environment']
       /\ savedUrls' = savedUrls
       /\ storage' = storage
       /\ storageOps' = storageOps]_vars

\* the production environment is active and shows its own (empty) saved URL,
\* not the development URL that was loaded
C14_Witness ==
  /\ shell = "mobile" /\ environment = "production"
  /\ savedUrls = [development |-> "http://localhost:3000", production |-> ""]
  /\ baseUrl = ""

\* the reason phrases of the ten codes the label is claimed for
ReasonPhrases ==
  { <<200, "OK">>, <<201, "Created">>, <<204, "No Content">>,
    <<400, "Bad Request">>, <<401, "Unauthorized">>, <<403, "Forbidden">>,
    <<404, "Not Found">>, <<500, "Internal Server Error">>,
    <<502, "Bad Gateway">>, <<503, "Service Unavailable">> }

\* C15: the status label is the reason phrase for exactly the codes 200, 201,
\* 204, 400, 401, 403, 404, 500, 502 and 503, and empty for every other code
\* and for an absent code.
C15_StatusText ==
  /\ code = Null => statusText = ""
  /\ code # Null =>
       /\ \A p \in ReasonPhrases : code[1] = p[1] => statusText = p[2]
       /\ (\A p \in ReasonPhrases : code[1] # p[1]) => statusText = ""

C15_Witness == code = Some(404) /\ statusText = "Not Found"

\* C16: called with the same result on screen, the same configuration and
\* the same transport outcome, handleSubmit of the browser shell and of the
\* mobile shell set the same sequence of (loading, statusCode, response, error)
\* states and make the same fetch call (URL, method, headers, body), or none.
C16_ShellsAgree ==
  runs # Null => /\ runs[1].web.states = runs[1].mobile.states
                 /\ runs[1].web.call = runs[1].mobile.call

\* both shells answered a 404 with a JSON body after a POST with a body
C16_Witness ==
  /\ runs # Null
  /\ runs[1].cfg.method = "POST" /\ runs[1].cfg.jsonBody = "{\"a\":1}"
  /\ runs[1].out.kind = "resolve" /\ runs[1].out.res.status = 404
  /\ runs[1].out.res.body = "{\"error\":\"missing\"}"
  /\ runs[1].mobile.call # Null /\ runs[1].mobile.call[1].body = Some("{\"a\":1}")
  /\ Len(runs[1].mobile.states) = 3
  /\ runs[1].mobile.states[3].statusCode = Some(404)
  /\ ~runs[1].mobile.states[3].loading

\* a step in which a call of handleSubmit returns: at once, for an invalid
\* body, or after its last await
ReturnStep == (SubmitStep /\ tasks' = tasks) \/ Len(tasks') < Len(tasks)

\* C17: every submission that ends (aborted for an invalid body, failed in
\* transport, or answered and interpreted) leaves loading false; as long as
\* its transport call or body read has not settled, loading is true, and no
\* step taken while loading is true starts a submission.
C17_BusyUntilDone ==
  [][/\ ReturnStep => ~loading'
     /\ tasks' # <<>> => loading'
     /\ loading => ~SubmitStep]_vars

\* two submissions have ended, the last one answered 200 with an empty body,
\* and the send control is enabled again
C17_Witness ==
  /\ nSubmits = 2 /\ tasks = <<>> /\ ~loading
  /\ statusCode = Some(200) /\ response = NoBodyPlaceholder

\* a call of handleSubmit waits for fetch: none of its outcome is recorded yet
AwaitingFetch == \E i \in DOMAIN tasks : tasks[i].pc = "fetch"

\* C18, as claimed: from the start of handleSubmit until that submission's
\* own outcome is recorded, response is empty, error is empty and statusCode
\* is absent.
C18_ResultEmptyUntilOutcome ==
  AwaitingFetch => (response = "" /\ error = "" /\ statusCode = Null)

\* C18, amended: a submission starts with response empty, error empty and
\* statusCode absent; until its own outcome is recorded response stays empty
\* and statusCode absent, and error is empty or formatJsonBody's 'Invalid JSON
\* in request body', which only a use of the Format control in the meantime
\* puts there.  Nothing an earlier submission recorded is shown in between.
C18_PriorResultDiscarded ==
  [][/\ SentStep => (response' = "" /\ error' = "" /\ statusCode' = Null)
     /\ AwaitingFetch' =>
          /\ response' = "" /\ statusCode' = Null
          /\ error' \in {"", InvalidBodyMessage}
     /\ (AwaitingFetch /\ AwaitingFetch' /\ error' # error) =>
          (nEdits' = nEdits + 1 /\ ~IsValidJson(jsonBody))]_vars

\* a second submission waits for fetch, the first one's result is gone, and
\* the Format control has put its error on screen
C18_Witness ==
  /\ nSubmits = 2 /\ AwaitingFetch
  /\ response = "" /\ statusCode = Null /\ error = InvalidBodyMessage

\* C19: the request of a submission is built from the configuration as it is
\* when the send control is pressed; a step that changes the configuration,
\* the base URL, the environment or the saved URLs while calls are suspended
\* changes neither their requests nor the result on screen; a suspended call
\* keeps its request at every step; and the call that returns records one
\* result, taken from its own response or failure.
C19_Snapshot ==
  [][/\ SentStep => Sent = Request
     /\ (config' # config \/ store' # store) => (tasks' = tasks /\ result' = result)
     /\ Len(tasks') = Len(tasks) =>
          \A i \in DOMAIN tasks : tasks'[i].req = tasks[i].req
     /\ Len(tasks') < Len(tasks) =>
          /\ Len(tasks) = 1 /\ ~loading'
          /\ (response' # response \/ error' # error)
          /\ response' # response =>
               (tasks[1].pc # "fetch" /\ error' = error
                  /\ response' = ExpectedBodyText(tasks[1].res.body))
          /\ error' # error =>
               (response' = response /\ StartsWith(error', RequestFailedPrefix))
          /\ statusCode' = statusCode]_vars

\* the request in flight is the GET to the development URL that was on screen
\* when it was sent; since then the environment was switched, which emptied
\* baseUrl, and the method was changed
C19_Witness ==
  /\ shell = "mobile" /\ environment = "production" /\ baseUrl = "" /\ method # "GET"
  /\ Len(tasks) = 1
  /\ tasks[1].req.url = "http://localhost:3000/api/users"
  /\ tasks[1].req.method = "GET"

=============================================================================
